---- MODULE Spec2Model ----
(***************************************************************************)
(* Expense tracker (src/main.py): the expenses table of the SQLite store   *)
(* and the tool functions that read and write it.                          *)
(*                                                                         *)
(* Text that the code compares or parses (dates, categories) is a sequence *)
(* of character codes, so that string order and date parsing are computed  *)
(* the way Python and SQLite compute them.  Text that is only stored and   *)
(* returned (subcategory, note) is a TLA+ string.  An optional argument is *)
(* <<>> when it is not supplied (Python None or an omitted default) and    *)
(* <<v>> when it is supplied with value v.  Amounts are integers.          *)
(*                                                                         *)
(* Spec is the server taking tool calls one at a time; DateSpec applies    *)
(* validate_date to strings of every shape; ConcurrentSpec runs the        *)
(* statements of edit_expense and delete_expense calls of two callers in   *)
(* every order.                                                            *)
(***************************************************************************)
EXTENDS Integers, Sequences, FiniteSets, TLC

\* Largest id the model lets the store assign.
MaxId == 2

----------------------------------------------------------------------------
\* Character codes and string order

Dash == 45
Space == 32

IsDigit(c) == c \in 48..57

DigitVal(c) == c - 48

\* Python str order and SQLite BINARY collation: compare code by code, a
\* proper prefix sorts first.
StrLess(a, b) ==
    \E k \in 1..(Len(a) + 1) :
        /\ \A j \in 1..(k - 1) : j <= Len(b) /\ a[j] = b[j]
        /\ \/ k = Len(a) + 1 /\ Len(b) >= k
           \/ k <= Len(a) /\ k <= Len(b) /\ a[k] < b[k]

StrLeq(a, b) == a = b \/ StrLess(a, b)

\* SQL: x BETWEEN lo AND hi
Between(x, lo, hi) == StrLeq(lo, x) /\ StrLeq(x, hi)

----------------------------------------------------------------------------
\* validate_date: datetime.strptime(date_str, '%Y-%m-%d') does not raise

IsLeap(y) == y % 4 = 0 /\ (y % 100 # 0 \/ y % 400 = 0)

DaysInMonth(y, m) ==
    IF m = 2 THEN (IF IsLeap(y) THEN 29 ELSE 28)
    ELSE IF m \in {4, 6, 9, 11} THEN 30 ELSE 31

\* %Y is \d\d\d\d followed by the literal '-'.
YearMatches(s) ==
    /\ Len(s) >= 5
    /\ \A i \in 1..4 : IsDigit(s[i])
    /\ s[5] = Dash

\* %m is 1[0-2]|0[1-9]|[1-9], tried in that order at position 6: the length
\* of the alternative that matches, 0 when none does.
MonthLen(s) ==
    IF Len(s) >= 7 /\ s[6] = 49 /\ s[7] \in 48..50 THEN 2
    ELSE IF Len(s) >= 7 /\ s[6] = 48 /\ s[7] \in 49..57 THEN 2
    ELSE IF Len(s) >= 6 /\ s[6] \in 49..57 THEN 1
    ELSE 0

\* %d is 3[01]|[12]\d|0[1-9]|[1-9]| [1-9], tried in that order at position p.
DayLen(s, p) ==
    IF Len(s) >= p + 1 /\ s[p] = 51 /\ s[p + 1] \in 48..49 THEN 2
    ELSE IF Len(s) >= p + 1 /\ s[p] \in 49..50 /\ IsDigit(s[p + 1]) THEN 2
    ELSE IF Len(s) >= p + 1 /\ s[p] = 48 /\ s[p + 1] \in 49..57 THEN 2
    ELSE IF Len(s) >= p /\ s[p] \in 49..57 THEN 1
    ELSE IF Len(s) >= p + 1 /\ s[p] = Space /\ s[p + 1] \in 49..57 THEN 2
    ELSE 0

\* int() of the digits of s in positions p..p+n-1, a leading space skipped.
IntOf(s, p, n) ==
    IF n = 1 THEN DigitVal(s[p])
    ELSE IF s[p] = Space THEN DigitVal(s[p + 1])
    ELSE 10 * DigitVal(s[p]) + DigitVal(s[p + 1])

YearOf(s) ==
    1000 * DigitVal(s[1]) + 100 * DigitVal(s[2]) + 10 * DigitVal(s[3]) + DigitVal(s[4])

\* A check of the pattern alone: any day up to 31 in any month.
validate_date_pattern(date_str) ==
    /\ YearMatches(date_str)
    /\ MonthLen(date_str) > 0
    /\ LET ml == MonthLen(date_str)
           dp == 6 + ml + 1
       IN  /\ Len(date_str) >= dp
           /\ date_str[6 + ml] = Dash
           /\ DayLen(date_str, dp) > 0
           /\ Len(date_str) = dp + DayLen(date_str, dp) - 1

validate_date(date_str) ==
    /\ YearMatches(date_str)
    /\ MonthLen(date_str) > 0
    /\ LET ml == MonthLen(date_str)
           dp == 6 + ml + 1
       IN  /\ Len(date_str) >= dp
           /\ date_str[6 + ml] = Dash
           /\ DayLen(date_str, dp) > 0
           \* "unconverted data remains" when the match stops short of the end
           /\ Len(date_str) = dp + DayLen(date_str, dp) - 1
           \* the date constructor rejects year 0 and a day past the month's end
           /\ YearOf(date_str) >= 1
           /\ IntOf(date_str, dp, DayLen(date_str, dp))
                  <= DaysInMonth(YearOf(date_str), IntOf(date_str, 6, ml))

----------------------------------------------------------------------------
\* Argument values the calls are made with

\* "2024-01-15"
D_Jan15 == <<50, 48, 50, 52, 45, 48, 49, 45, 49, 53>>
\* "2024-3-5", a date strptime accepts without zero padding
D_Mar5 == <<50, 48, 50, 52, 45, 51, 45, 53>>
\* "2024-12-31"
D_Dec31 == <<50, 48, 50, 52, 45, 49, 50, 45, 51, 49>>
\* "2023-02-29", no such day
D_NoSuchDay == <<50, 48, 50, 51, 45, 48, 50, 45, 50, 57>>

\* "Bus"
C_Bus == <<66, 117, 115>>
\* "Food"
C_Food == <<70, 111, 111, 100>>
\* ""
C_Empty == <<>>

None == <<>>
Some(v) == <<v>>
Optional(S) == {None} \cup {Some(v) : v \in S}

\* <<start_date, end_date>> of the range queries: a single day, ranges that
\* string order and the calendar order differently, reversed and invalid bounds
QueryRanges ==
    { <<D_Jan15, D_Jan15>>, <<D_Jan15, D_Mar5>>, <<D_Jan15, D_Dec31>>,
      <<D_Dec31, D_Mar5>>, <<D_Mar5, D_Jan15>>,
      <<D_NoSuchDay, D_Mar5>>, <<D_Jan15, D_NoSuchDay>> }
Categories == {C_Bus, C_Food, C_Empty}
\* ids a caller asks for: every id the store can assign and one it never does
CallIds == 1..(MaxId + 1)

\* add_expense calls, <<date, amount, category, subcategory, note>>: every valid
\* date, amount and category with subcategory and note omitted, one call that
\* supplies both, and calls with an invalid date, amount or both.
AddCalls ==
    ({D_Jan15, D_Mar5} \X {1, 2} \X Categories \X {None} \X {None})
    \cup { <<D_Mar5, 2, C_Food, Some("cafe"), Some("cash")>>,
           <<D_NoSuchDay, 1, C_Bus, None, None>>,
           <<D_NoSuchDay, 0, C_Food, None, Some("cash")>>,
           <<D_Jan15, 0, C_Bus, None, None>>,
           <<D_Mar5, -1, C_Empty, Some("cafe"), None>> }

\* edit_expense calls, after the id: <<date, amount, category, subcategory, note>>
EditCalls ==
    { <<None, None, None, None, None>>,
      <<Some(D_Mar5), None, None, None, None>>,
      <<None, Some(2), None, None, None>>,
      <<None, None, Some(C_Food), None, None>>,
      <<None, None, Some(C_Empty), Some(""), Some("")>>,
      <<None, None, None, Some(""), None>>,
      <<None, None, None, None, Some("")>>,
      <<Some(D_NoSuchDay), None, None, None, Some("")>>,
      <<None, Some(0), Some(C_Food), None, None>>,
      <<Some(D_Mar5), Some(2), Some(C_Food), Some(""), Some("")>> }

----------------------------------------------------------------------------
\* State

VARIABLES
    expenses,   \* the expenses table: live id -> row
    seq,        \* sqlite_sequence: the largest id ever assigned (AUTOINCREMENT)
    last,       \* the call being answered: [op, args, ret]; NoCall between calls
    before,     \* the expenses table as it was when that call started
    issued,     \* history: the ids returned by successful add_expense calls, in order
    deleted,    \* history: the ids removed by successful delete_expense calls
    calls       \* the calls of callers that run concurrently: caller -> call

vars == <<expenses, seq, last, before, issued, deleted, calls>>

\* init_db: CREATE TABLE IF NOT EXISTS on a fresh database file
init_db ==
    /\ expenses = <<>>
    /\ seq = 0

NoCall == [op |-> "", args |-> <<>>, ret |-> <<>>]

Init ==
    /\ init_db
    /\ last = NoCall
    /\ before = <<>>
    /\ issued = <<>>
    /\ deleted = {}
    /\ calls = <<>>

----------------------------------------------------------------------------
\* Responses

Error(message) == [status |-> "error", message |-> message]

InvalidDate == Error("Invalid date format. Use YYYY-MM-DD")

AmountNotPositive == Error("Amount must be positive")

NotFound(expense_id) ==
    Error("Expense with ID " \o ToString(expense_id) \o " not found.")

\* A bare Python list, as list_expenses and summarize_expenses return it.
List(items) == [list |-> items]

IsEnvelope(ret) == "status" \in DOMAIN ret

IsList(ret) == "list" \in DOMAIN ret

\* dict(zip(cols, row)) for SELECT id, date, amount, category, subcategory, note
RowDict(t, id) ==
    [id |-> id, date |-> t[id].date, amount |-> t[id].amount,
     category |-> t[id].category, subcategory |-> t[id].subcategory,
     note |-> t[id].note]

\* The server is between calls.
Ready == last = NoCall

\* The tool function returns ret.
Returned(op, args, ret) ==
    /\ last' = [op |-> op, args |-> args, ret |-> ret]
    /\ before' = expenses
    /\ UNCHANGED calls

\* mcp.run: the transport sends the response; the server takes the next call.
Reply ==
    /\ last # NoCall
    /\ last' = NoCall
    /\ before' = expenses
    /\ UNCHANGED <<expenses, seq, issued, deleted, calls>>

----------------------------------------------------------------------------
\* add_expense

\* A key without AUTOINCREMENT: one more than the largest id now in the table.
NextIdOfLiveRows(t, s) ==
    IF DOMAIN t = {} THEN 1
    ELSE (CHOOSE i \in DOMAIN t : \A j \in DOMAIN t : j <= i) + 1

\* INSERT under INTEGER PRIMARY KEY AUTOINCREMENT: one more than the largest
\* id the table has ever held, which sqlite_sequence remembers.
NextId(t, s) == s + 1

Insert(t, id, row) == [i \in DOMAIN t \cup {id} |-> IF i = id THEN row ELSE t[i]]

\* A parameter with a default: the default when the caller omits it.
OrDefault(opt, default) == IF opt = None THEN default ELSE opt[1]

\* A check that lets a zero amount through.
NonPositiveButZero(amount) == amount < 0

\* "if amount <= 0"
NonPositive(amount) == amount <= 0

\* The last two values bound the other way round.
NewRowSwapped(date, amount, category, subcategory, note) ==
    [date |-> date, amount |-> amount, category |-> category,
     subcategory |-> note, note |-> subcategory]

\* VALUES (?, ?, ?, ?, ?) bound to (date, amount, category, subcategory, note)
NewRow(date, amount, category, subcategory, note) ==
    [date |-> date, amount |-> amount, category |-> category,
     subcategory |-> subcategory, note |-> note]

add_expense(date, amount, category, subcategory_arg, note_arg) ==
    LET subcategory == OrDefault(subcategory_arg, "")
        note == OrDefault(note_arg, "")
        args == [date |-> date, amount |-> amount, category |-> category,
                 subcategory |-> subcategory_arg, note |-> note_arg]
        id == NextId(expenses, seq)
    IN  IF ~validate_date(date)
        THEN /\ Returned("add_expense", args, InvalidDate)
             /\ UNCHANGED <<expenses, seq, issued, deleted>>
        ELSE IF NonPositive(amount)
        THEN /\ Returned("add_expense", args, AmountNotPositive)
             /\ UNCHANGED <<expenses, seq, issued, deleted>>
        ELSE /\ id <= MaxId
             /\ expenses' = Insert(expenses, id,
                                   NewRow(date, amount, category, subcategory, note))
             /\ seq' = IF id > seq THEN id ELSE seq
             /\ issued' = Append(issued, id)
             /\ Returned("add_expense", args,
                         [status |-> "success",
                          message |-> "Expense added successfully.",
                          id |-> id])
             /\ UNCHANGED deleted

----------------------------------------------------------------------------
\* get_expense_by_id

GetById(t, expense_id) ==
    IF expense_id \in DOMAIN t THEN RowDict(t, expense_id) ELSE NotFound(expense_id)

\* The body of delete_expense with the row returned: the DELETE is still there.
get_expense_by_id_and_delete(expense_id) ==
    /\ Returned("get_expense_by_id", [expense_id |-> expense_id],
                GetById(expenses, expense_id))
    /\ expenses' = [i \in DOMAIN expenses \ {expense_id} |-> expenses[i]]
    /\ UNCHANGED <<seq, issued, deleted>>

get_expense_by_id(expense_id) ==
    /\ Returned("get_expense_by_id", [expense_id |-> expense_id],
                GetById(expenses, expense_id))
    /\ UNCHANGED <<expenses, seq, issued, deleted>>

----------------------------------------------------------------------------
\* edit_expense

\* "x if x is not None else old"
Coalesce(opt, old) == IF opt # None THEN opt[1] ELSE old

\* UPDATE ... WHERE id = ?: no row is written when none has the id
Update(t, id, row) == [t EXCEPT ![id] = row]

\* No check that the row is there.
ExistsUnchecked(t, expense_id) == TRUE

\* fetchone() of SELECT * FROM expenses WHERE id = ? is a row
Exists(t, expense_id) == expense_id \in DOMAIN t

\* "x if x else old" for the two text fields: an empty string counts as absent.
PatchedIfTruthy(expense, date, amount, category, subcategory, note) ==
    [date |-> Coalesce(date, expense.date),
     amount |-> Coalesce(amount, expense.amount),
     category |-> Coalesce(category, expense.category),
     subcategory |-> IF subcategory # None /\ subcategory[1] # ""
                     THEN subcategory[1] ELSE expense.subcategory,
     note |-> IF note # None /\ note[1] # "" THEN note[1] ELSE expense.note]

\* updated_date .. updated_note: the supplied value, else the fetched one
Patched(expense, date, amount, category, subcategory, note) ==
    [date |-> Coalesce(date, expense.date),
     amount |-> Coalesce(amount, expense.amount),
     category |-> Coalesce(category, expense.category),
     subcategory |-> Coalesce(subcategory, expense.subcategory),
     note |-> Coalesce(note, expense.note)]

edit_expense(expense_id, date, amount, category, subcategory, note) ==
    LET args == [expense_id |-> expense_id, date |-> date, amount |-> amount,
                 category |-> category, subcategory |-> subcategory, note |-> note]
    IN  IF date # None /\ ~validate_date(date[1])
        THEN /\ Returned("edit_expense", args, InvalidDate)
             /\ UNCHANGED <<expenses, seq, issued, deleted>>
        ELSE IF amount # None /\ NonPositive(amount[1])
        THEN /\ Returned("edit_expense", args, AmountNotPositive)
             /\ UNCHANGED <<expenses, seq, issued, deleted>>
        ELSE IF ~Exists(expenses, expense_id)
        THEN /\ Returned("edit_expense", args, NotFound(expense_id))
             /\ UNCHANGED <<expenses, seq, issued, deleted>>
        ELSE LET expense == expenses[expense_id]
             IN  /\ expenses' = Update(expenses, expense_id,
                        Patched(expense, date, amount, category, subcategory, note))
                 /\ Returned("edit_expense", args,
                             [status |-> "success",
                              message |-> "Expense updated successfully."])
                 /\ UNCHANGED <<seq, issued, deleted>>

----------------------------------------------------------------------------
\* delete_expense

\* DELETE FROM expenses without the WHERE clause.
DeleteEveryRow(t, id) == <<>>

\* DELETE FROM expenses WHERE id = ?
Delete(t, id) == [i \in DOMAIN t \ {id} |-> t[i]]

delete_expense(expense_id) ==
    LET args == [expense_id |-> expense_id]
    IN  IF ~Exists(expenses, expense_id)
        THEN /\ Returned("delete_expense", args, NotFound(expense_id))
             /\ UNCHANGED <<expenses, seq, issued, deleted>>
        ELSE /\ expenses' = Delete(expenses, expense_id)
             /\ deleted' = deleted \cup {expense_id}
             /\ Returned("delete_expense", args,
                         [status |-> "success",
                          message |-> "Expense deleted successfully."])
             /\ UNCHANGED <<seq, issued>>

----------------------------------------------------------------------------
\* list_expenses

\* WHERE date BETWEEN ? AND ?
InRange(t, start_date, end_date) ==
    {i \in DOMAIN t : Between(t[i].date, start_date, end_date)}

\* ORDER BY id ASC alone.
RowBeforeById(t, i, j) == i < j

\* ORDER BY date ASC, id ASC
RowBefore(t, i, j) ==
    \/ StrLess(t[i].date, t[j].date)
    \/ t[i].date = t[j].date /\ i < j

RECURSIVE OrderByDateId(_, _)
OrderByDateId(t, ids) ==
    IF ids = {} THEN <<>>
    ELSE LET first == CHOOSE i \in ids : \A j \in ids \ {i} : RowBefore(t, i, j)
         IN  <<first>> \o OrderByDateId(t, ids \ {first})

ListRows(t, start_date, end_date) ==
    LET ordered == OrderByDateId(t, InRange(t, start_date, end_date))
    IN  [k \in 1..Len(ordered) |-> RowDict(t, ordered[k])]

list_expenses(start_date, end_date) ==
    LET args == [start_date |-> start_date, end_date |-> end_date]
    IN  /\ IF ~validate_date(start_date) \/ ~validate_date(end_date)
           THEN Returned("list_expenses", args, InvalidDate)
           ELSE Returned("list_expenses", args,
                         List(ListRows(expenses, start_date, end_date)))
        /\ UNCHANGED <<expenses, seq, issued, deleted>>

----------------------------------------------------------------------------
\* summarize_expenses

RECURSIVE SumAmount(_, _)
SumAmount(t, ids) ==
    IF ids = {} THEN 0
    ELSE LET i == CHOOSE j \in ids : TRUE
         IN  t[i].amount + SumAmount(t, ids \ {i})

\* The groups in descending category order.
RECURSIVE GroupOrderDescending(_)
GroupOrderDescending(cats) ==
    IF cats = {} THEN <<>>
    ELSE LET first == CHOOSE c \in cats : \A d \in cats \ {c} : StrLess(d, c)
         IN  <<first>> \o GroupOrderDescending(cats \ {first})

\* The groups of GROUP BY category come out of SQLite's sorter (the query plan
\* is USE TEMP B-TREE FOR GROUP BY): ascending category, BINARY collation.
RECURSIVE GroupOrder(_)
GroupOrder(cats) ==
    IF cats = {} THEN <<>>
    ELSE LET first == CHOOSE c \in cats : \A d \in cats \ {c} : StrLess(c, d)
         IN  <<first>> \o GroupOrder(cats \ {first})

\* The sum taken over the category's rows of every date.
GroupDictAllDates(t, ids, c) ==
    [category |-> c, total |-> SumAmount(t, {i \in DOMAIN t : t[i].category = c})]

\* dict(zip(cols, row)) for SELECT category, SUM(amount) as total
GroupDict(t, ids, c) ==
    [category |-> c, total |-> SumAmount(t, {i \in ids : t[i].category = c})]

\* "if category:" is false for None and for the empty string
Truthy(opt) == opt # None /\ opt[1] # <<>>

\* WHERE date >= ? AND date < ?: the end date is left out.
SummaryExclusiveEnd(t, start_date, end_date, category) ==
    LET inRange == {i \in InRange(t, start_date, end_date) : t[i].date # end_date}
        ids == IF Truthy(category)
               THEN {i \in inRange : t[i].category = category[1]}
               ELSE inRange
        groups == GroupOrder({t[i].category : i \in ids})
    IN  [k \in 1..Len(groups) |-> GroupDict(t, ids, groups[k])]

Summary(t, start_date, end_date, category) ==
    LET ids == IF Truthy(category)
               THEN {i \in InRange(t, start_date, end_date) : t[i].category = category[1]}
               ELSE InRange(t, start_date, end_date)
        groups == GroupOrder({t[i].category : i \in ids})
    IN  [k \in 1..Len(groups) |-> GroupDict(t, ids, groups[k])]

summarize_expenses(start_date, end_date, category) ==
    LET args == [start_date |-> start_date, end_date |-> end_date,
                 category |-> category]
    IN  /\ IF ~validate_date(start_date) \/ ~validate_date(end_date)
           THEN Returned("summarize_expenses", args, InvalidDate)
           ELSE Returned("summarize_expenses", args,
                         List(Summary(expenses, start_date, end_date, category)))
        /\ UNCHANGED <<expenses, seq, issued, deleted>>

----------------------------------------------------------------------------
\* get_categories

\* SELECT category ... ORDER BY id: one entry for every row.
CategoryOfEveryRow(t) ==
    LET n == Cardinality(DOMAIN t)
        ids == CHOOSE f \in [1..n -> DOMAIN t] : \A a, b \in 1..n : a < b => f[a] < f[b]
    IN  [k \in 1..n |-> t[ids[k]].category]

\* SELECT DISTINCT category ... ORDER BY category
DistinctCategories(t) == GroupOrder({t[i].category : i \in DOMAIN t})

get_categories ==
    /\ Returned("get_categories", <<>>,
                [status |-> "success", categories |-> DistinctCategories(expenses)])
    /\ UNCHANGED <<expenses, seq, issued, deleted>>

----------------------------------------------------------------------------
\* get_total_expenses

RECURSIVE SumOf(_)
SumOf(S) ==
    IF S = {} THEN 0
    ELSE LET x == CHOOSE y \in S : TRUE
         IN  x + SumOf(S \ {x})

\* SUM(DISTINCT amount): equal amounts are added once.
SqlSumDistinct(t, ids) ==
    IF ids = {} THEN None ELSE Some(SumOf({t[i].amount : i \in ids}))

\* SUM(amount) over no rows is NULL
SqlSum(t, ids) == IF ids = {} THEN None ELSE Some(SumAmount(t, ids))

\* "result[0] if result[0] else 0"
TotalOrZero(sum) == IF sum # None /\ sum[1] # 0 THEN sum[1] ELSE 0

get_total_expenses(start_date, end_date) ==
    LET args == [start_date |-> start_date, end_date |-> end_date]
        ids == InRange(expenses, start_date, end_date)
    IN  /\ IF ~validate_date(start_date) \/ ~validate_date(end_date)
           THEN Returned("get_total_expenses", args, InvalidDate)
           ELSE Returned("get_total_expenses", args,
                         [status |-> "success",
                          total |-> TotalOrZero(SqlSum(expenses, ids)),
                          count |-> Cardinality(ids),
                          start_date |-> start_date,
                          end_date |-> end_date])
        /\ UNCHANGED <<expenses, seq, issued, deleted>>

----------------------------------------------------------------------------
\* The server: tool calls arrive one at a time, with any arguments

AddExpense ==
    /\ Ready
    /\ \E c \in AddCalls : add_expense(c[1], c[2], c[3], c[4], c[5])

EditExpense ==
    /\ Ready
    /\ \E expense_id \in CallIds, c \in EditCalls :
           edit_expense(expense_id, c[1], c[2], c[3], c[4], c[5])

DeleteExpense ==
    /\ Ready
    /\ \E expense_id \in CallIds : delete_expense(expense_id)

GetExpenseById ==
    /\ Ready
    /\ \E expense_id \in CallIds : get_expense_by_id(expense_id)

ListExpenses ==
    /\ Ready
    /\ \E r \in QueryRanges : list_expenses(r[1], r[2])

SummarizeExpenses ==
    /\ Ready
    /\ \E r \in QueryRanges, category \in Optional(Categories) :
           summarize_expenses(r[1], r[2], category)

GetCategories ==
    /\ Ready
    /\ get_categories

GetTotalExpenses ==
    /\ Ready
    /\ \E r \in QueryRanges : get_total_expenses(r[1], r[2])

Next ==
    \/ AddExpense
    \/ EditExpense
    \/ DeleteExpense
    \/ GetExpenseById
    \/ ListExpenses
    \/ SummarizeExpenses
    \/ GetCategories
    \/ GetTotalExpenses
    \/ Reply

Spec == Init /\ [][Next]_vars

----------------------------------------------------------------------------
\* Properties

Succeeded(ret) == IsEnvelope(ret) /\ ret.status = "success"

Failed(ret) == IsEnvelope(ret) /\ ret.status = "error"

\* The number that the n characters of s from position p write in digits, or
\* for a day in a space and a digit; -1 when they write none.
Written(s, p, n, spaceAllowed) ==
    IF n = 1
    THEN IF IsDigit(s[p]) THEN DigitVal(s[p]) ELSE -1
    ELSE IF IsDigit(s[p]) /\ IsDigit(s[p + 1])
         THEN 10 * DigitVal(s[p]) + DigitVal(s[p + 1])
         ELSE IF spaceAllowed /\ s[p] = Space /\ IsDigit(s[p + 1])
              THEN DigitVal(s[p + 1])
              ELSE -1

\* s is a four-digit year from 1 on, a month of the year and a day of that
\* month, each of one or two characters, joined by dashes.
NamesCalendarDate(s) ==
    \E ml \in 1..2, dl \in 1..2 :
        /\ Len(s) = 6 + ml + dl
        /\ \A i \in 1..4 : IsDigit(s[i])
        /\ s[5] = Dash
        /\ s[6 + ml] = Dash
        /\ YearOf(s) >= 1
        /\ LET m == Written(s, 6, ml, FALSE)
               d == Written(s, 7 + ml, dl, TRUE)
           IN  /\ m \in 1..12
               /\ d >= 1
               /\ d <= DaysInMonth(YearOf(s), m)

C2_IdsNeverReused ==
    /\ \A j, k \in 1..Len(issued) : j < k => issued[j] < issued[k]
    /\ (last.op = "add_expense" /\ Succeeded(last.ret)) =>
           /\ last.ret.id \notin DOMAIN before
           /\ last.ret.id \notin deleted
           /\ DOMAIN expenses = DOMAIN before \cup {last.ret.id}
    /\ last.op = "edit_expense" => DOMAIN expenses = DOMAIN before

\* An add that succeeds after the row with the highest id was deleted.
C2_Witness ==
    /\ last.op = "add_expense"
    /\ Succeeded(last.ret)
    /\ last.ret.id - 1 \in deleted
    /\ last.ret.id - 1 \notin DOMAIN expenses

\* C3: after a successful add_expense, get_expense_by_id of the returned id
\* gives the record with that id and the submitted date, amount, category,
\* subcategory and note, the last two empty when omitted.
C3_AddThenGet ==
    (last.op = "add_expense" /\ Succeeded(last.ret)) =>
        GetById(expenses, last.ret.id) =
            [id |-> last.ret.id,
             date |-> last.args.date,
             amount |-> last.args.amount,
             category |-> last.args.category,
             subcategory |-> IF last.args.subcategory = None THEN ""
                             ELSE last.args.subcategory[1],
             note |-> IF last.args.note = None THEN ""
                      ELSE last.args.note[1]]

\* A successful add that supplied subcategory and note, beside an older row.
C3_Witness ==
    /\ last.op = "add_expense"
    /\ Succeeded(last.ret)
    /\ last.args.subcategory # None
    /\ last.args.note # None
    /\ DOMAIN before # {}

\* C4: add_expense or edit_expense called with an amount <= 0 or a date that
\* does not name a calendar date returns an error envelope and leaves the
\* table as it was, whatever the other arguments and whether or not the id
\* exists.
C4_InvalidRejected ==
    /\ (/\ last.op = "add_expense"
        /\ \/ last.args.amount <= 0
           \/ ~NamesCalendarDate(last.args.date))
           => Failed(last.ret) /\ expenses = before
    /\ (/\ last.op = "edit_expense"
        /\ \/ last.args.amount # None /\ last.args.amount[1] <= 0
           \/ last.args.date # None /\ ~NamesCalendarDate(last.args.date[1]))
           => Failed(last.ret) /\ expenses = before

\* An edit of an existing row with a date of no calendar day and a valid note.
C4_Witness ==
    /\ last.op = "edit_expense"
    /\ last.args.expense_id \in DOMAIN before
    /\ last.args.date = Some(D_NoSuchDay)
    /\ last.args.note # None
    /\ before[last.args.expense_id].note # last.args.note[1]

\* C5: for bounds that pass validation, list_expenses returns a list holding
\* exactly the rows with start_date <= date <= end_date in string order, each
\* once, as full records, sorted by date and then id; with start_date >
\* end_date the list is empty.
C5_ListRange ==
    (/\ last.op = "list_expenses"
     /\ validate_date(last.args.start_date)
     /\ validate_date(last.args.end_date)) =>
        /\ IsList(last.ret)
        /\ LET items == last.ret.list
               lo == last.args.start_date
               hi == last.args.end_date
           IN  /\ \A k \in 1..Len(items) :
                     /\ items[k].id \in DOMAIN expenses
                     /\ items[k] = GetById(expenses, items[k].id)
                     /\ StrLeq(lo, items[k].date)
                     /\ StrLeq(items[k].date, hi)
               /\ \A i \in DOMAIN expenses :
                     (StrLeq(lo, expenses[i].date) /\ StrLeq(expenses[i].date, hi))
                         => Cardinality({k \in 1..Len(items) : items[k].id = i}) = 1
               /\ \A k \in 1..(Len(items) - 1) :
                     \/ StrLess(items[k].date, items[k + 1].date)
                     \/ /\ items[k].date = items[k + 1].date
                        /\ items[k].id < items[k + 1].id
               /\ StrLess(hi, lo) => items = <<>>

\* A listing of two rows in which the later id comes first.
C5_Witness ==
    /\ last.op = "list_expenses"
    /\ IsList(last.ret)
    /\ Len(last.ret.list) = 2
    /\ last.ret.list[1].id > last.ret.list[2].id

\* C6: edit_expense of an existing id with valid overrides succeeds; the row
\* then has the supplied value in each supplied field, an empty string
\* included, and its prior value in every other; the ids and all other rows
\* are as before; with no field supplied the whole table is as before.
C6_EditFrame ==
    (/\ last.op = "edit_expense"
     /\ last.args.expense_id \in DOMAIN before
     /\ last.args.date # None => validate_date(last.args.date[1])
     /\ last.args.amount # None => last.args.amount[1] > 0) =>
        LET a == last.args
            old == before[a.expense_id]
        IN  /\ Succeeded(last.ret)
            /\ DOMAIN expenses = DOMAIN before
            /\ \A i \in DOMAIN before \ {a.expense_id} : expenses[i] = before[i]
            /\ LET new == expenses[a.expense_id]
               IN  /\ new.date = IF a.date = None THEN old.date ELSE a.date[1]
                   /\ new.amount = IF a.amount = None THEN old.amount ELSE a.amount[1]
                   /\ new.category =
                          IF a.category = None THEN old.category ELSE a.category[1]
                   /\ new.subcategory =
                          IF a.subcategory = None THEN old.subcategory
                          ELSE a.subcategory[1]
                   /\ new.note = IF a.note = None THEN old.note ELSE a.note[1]
            /\ (/\ a.date = None /\ a.amount = None /\ a.category = None
                /\ a.subcategory = None /\ a.note = None) => expenses = before

\* An edit that clears the note of a row with a note and supplies nothing
\* else, in a table with another row.
C6_Witness ==
    /\ last.op = "edit_expense"
    /\ Succeeded(last.ret)
    /\ last.args.note = Some("")
    /\ last.args.subcategory = None
    /\ before[last.args.expense_id].note = "cash"
    /\ Cardinality(DOMAIN before) = 2

\* The envelope that reports a missing id.
IsNotFound(ret, expense_id) ==
    /\ Failed(ret)
    /\ ret.message = "Expense with ID " \o ToString(expense_id) \o " not found."

IsValidationError(ret) ==
    /\ Failed(ret)
    /\ ret.message \in {"Invalid date format. Use YYYY-MM-DD", "Amount must be positive"}

\* C7 as claimed: edit_expense and delete_expense of an id that has no row
\* return the not-found envelope and leave the table as it was.
C7_AsClaimed ==
    (/\ last.op \in {"edit_expense", "delete_expense"}
     /\ last.args.expense_id \notin DOMAIN before) =>
        /\ IsNotFound(last.ret, last.args.expense_id)
        /\ expenses = before

\* C7: edit_expense and delete_expense of an id that has no row return an
\* error envelope, never success, and leave the table as it was; the error is
\* the not-found one, except that edit_expense checks a supplied date and
\* amount first and reports an invalid one as a validation error.
C7_MissingIdRejected ==
    (/\ last.op \in {"edit_expense", "delete_expense"}
     /\ last.args.expense_id \notin DOMAIN before) =>
        /\ Failed(last.ret)
        /\ expenses = before
        /\ IF /\ last.op = "edit_expense"
              /\ \/ last.args.date # None /\ ~NamesCalendarDate(last.args.date[1])
                 \/ last.args.amount # None /\ last.args.amount[1] <= 0
           THEN IsValidationError(last.ret)
           ELSE IsNotFound(last.ret, last.args.expense_id)

\* An edit with valid overrides of an id whose row was deleted, other rows
\* being present.
C7_Witness ==
    /\ last.op = "edit_expense"
    /\ last.args.expense_id \in deleted
    /\ last.args.amount = Some(2)
    /\ IsNotFound(last.ret, last.args.expense_id)
    /\ DOMAIN before # {}

\* C8: delete_expense of an existing id succeeds and removes that row alone,
\* every other row staying as it was; from then on, whatever calls follow,
\* get_expense_by_id of a deleted id reports not-found.
C8_DeleteForGood ==
    /\ (last.op = "delete_expense" /\ last.args.expense_id \in DOMAIN before) =>
           /\ Succeeded(last.ret)
           /\ DOMAIN expenses = DOMAIN before \ {last.args.expense_id}
           /\ \A i \in DOMAIN expenses : expenses[i] = before[i]
    /\ \A i \in deleted : IsNotFound(GetById(expenses, i), i)
    /\ (last.op = "get_expense_by_id" /\ last.args.expense_id \in deleted) =>
           IsNotFound(last.ret, last.args.expense_id)

\* get_expense_by_id of a deleted id, asked after a later add filled the table
\* again.
C8_Witness ==
    /\ last.op = "get_expense_by_id"
    /\ last.args.expense_id \in deleted
    /\ seq > last.args.expense_id
    /\ DOMAIN expenses # {}

\* The rows of category c with a date between the bounds.
Matching(t, lo, hi, c) ==
    {i \in DOMAIN t : /\ StrLeq(lo, t[i].date)
                      /\ StrLeq(t[i].date, hi)
                      /\ t[i].category = c}

SummarizeAll ==
    /\ last.op = "summarize_expenses"
    /\ validate_date(last.args.start_date)
    /\ validate_date(last.args.end_date)
    /\ last.args.category = None

\* One entry for each category with a row in range, and for no other.
OnePerCategory(items, t, lo, hi) ==
    /\ \A k \in 1..Len(items) : Matching(t, lo, hi, items[k].category) # {}
    /\ \A i \in DOMAIN t :
           Matching(t, lo, hi, t[i].category) # {} =>
               Cardinality({k \in 1..Len(items) :
                               items[k].category = t[i].category}) = 1
    /\ (\A i \in DOMAIN t : Matching(t, lo, hi, t[i].category) = {}) => items = <<>>

\* C9 as claimed: summarize_expenses without a category returns one entry for
\* each category with a row in range, and each entry carries the sum of the
\* amounts and the count of the category's rows in range.
C9_AsClaimed ==
    SummarizeAll =>
        /\ IsList(last.ret)
        /\ LET items == last.ret.list
               lo == last.args.start_date
               hi == last.args.end_date
           IN  /\ OnePerCategory(items, expenses, lo, hi)
               /\ \A k \in 1..Len(items) :
                     LET rows == Matching(expenses, lo, hi, items[k].category)
                     IN  /\ items[k].total = SumAmount(expenses, rows)
                         /\ "count" \in DOMAIN items[k]
                         /\ items[k].count = Cardinality(rows)

\* C9: summarize_expenses without a category returns one entry for each
\* category with a row in range and none for any other, so an empty list when
\* no row is in range; each entry carries the category and, as total, the sum
\* of the amounts of the category's rows in range, and nothing else: no count.
C9_Summary ==
    SummarizeAll =>
        /\ IsList(last.ret)
        /\ LET items == last.ret.list
               lo == last.args.start_date
               hi == last.args.end_date
           IN  /\ OnePerCategory(items, expenses, lo, hi)
               /\ \A k \in 1..Len(items) :
                     /\ DOMAIN items[k] = {"category", "total"}
                     /\ items[k].total =
                            SumAmount(expenses,
                                      Matching(expenses, lo, hi, items[k].category))

\* A summary with an entry for one category while a row of another category
\* lies outside the range.
C9_Witness ==
    /\ SummarizeAll
    /\ Len(last.ret.list) = 1
    /\ last.ret.list[1].category = C_Food
    /\ \E i \in DOMAIN expenses : expenses[i].category = C_Bus

Summarize ==
    /\ last.op = "summarize_expenses"
    /\ validate_date(last.args.start_date)
    /\ validate_date(last.args.end_date)

RowsBetween(t, lo, hi) ==
    {i \in DOMAIN t : StrLeq(lo, t[i].date) /\ StrLeq(t[i].date, hi)}

\* The amounts of the rows between the bounds with an id up to n, added up in
\* id order.
RECURSIVE AmountsUpTo(_, _, _, _)
AmountsUpTo(t, lo, hi, n) ==
    IF n = 0 THEN 0
    ELSE AmountsUpTo(t, lo, hi, n - 1)
             + (IF n \in RowsBetween(t, lo, hi) THEN t[n].amount ELSE 0)

Total ==
    /\ last.op = "get_total_expenses"
    /\ validate_date(last.args.start_date)
    /\ validate_date(last.args.end_date)

\* C11: for bounds that pass validation, get_total_expenses returns success
\* with total the sum of the amounts of exactly the rows with start_date <=
\* date <= end_date and count the number of those rows; when no row matches,
\* total is the number 0 and count is 0.
C11_Total ==
    Total =>
        LET rows == RowsBetween(expenses, last.args.start_date, last.args.end_date)
        IN  /\ Succeeded(last.ret)
            /\ {"total", "count"} \subseteq DOMAIN last.ret
            /\ last.ret.total =
                   AmountsUpTo(expenses, last.args.start_date, last.args.end_date, seq)
            /\ last.ret.count = Cardinality(rows)
            /\ rows = {} => last.ret.total = 0 /\ last.ret.count = 0

\* A total over a range that holds one of the two rows of the table.
C11_Witness ==
    /\ Total
    /\ last.ret.count = 1
    /\ Cardinality(DOMAIN expenses) = 2

\* C12: get_categories returns success with the category values that at
\* least one row of the table now holds, each once, in ascending order: no
\* entry for a category whose last row was deleted or given another category,
\* and an empty list for an empty table.
C12_Categories ==
    last.op = "get_categories" =>
        /\ Succeeded(last.ret)
        /\ LET cats == last.ret.categories
           IN  /\ {cats[k] : k \in 1..Len(cats)} =
                      {expenses[i].category : i \in DOMAIN expenses}
               /\ \A k \in 1..(Len(cats) - 1) : StrLess(cats[k], cats[k + 1])
               /\ DOMAIN expenses = {} => cats = <<>>

\* The categories of a table of one row, asked for after another row was
\* deleted.
C12_Witness ==
    /\ last.op = "get_categories"
    /\ deleted # {}
    /\ Cardinality(DOMAIN expenses) = 1
    /\ Len(last.ret.categories) = 1

\* C14 as claimed: every row of the table has a non-empty category.
C14_AsClaimed ==
    \A i \in DOMAIN expenses : expenses[i].category # <<>>

\* C16 as claimed: with a category argument c supplied, summarize_expenses
\* returns at most one entry, its category c and its total the sum of the
\* amounts of the rows in range of category c, and no entry when there is no
\* such row.
C16_AsClaimed ==
    (Summarize /\ last.args.category # None) =>
        LET items == last.ret.list
            c == last.args.category[1]
            rows == Matching(expenses, last.args.start_date, last.args.end_date, c)
        IN  /\ Len(items) <= 1
            /\ \A k \in 1..Len(items) :
                   /\ items[k].category = c
                   /\ items[k].total = SumAmount(expenses, rows)
            /\ rows = {} <=> items = <<>>

\* The day that a date validate_date accepts names, as year * 10000 +
\* month * 100 + day: the order of these numbers is the order of the calendar.
CalendarDay(s) ==
    LET ml == MonthLen(s)
        dp == 6 + ml + 1
    IN  10000 * YearOf(s) + 100 * IntOf(s, 6, ml) + IntOf(s, dp, DayLen(s, dp))

\* C17 as claimed: for bounds that pass validation, list_expenses returns
\* exactly the rows whose calendar date lies from the day of start_date to
\* the day of end_date.
C17_AsClaimed ==
    (/\ last.op = "list_expenses"
     /\ validate_date(last.args.start_date)
     /\ validate_date(last.args.end_date)) =>
        {last.ret.list[k].id : k \in 1..Len(last.ret.list)} =
            {i \in DOMAIN expenses :
                /\ CalendarDay(last.args.start_date) <= CalendarDay(expenses[i].date)
                /\ CalendarDay(expenses[i].date) <= CalendarDay(last.args.end_date)}

ReadOps ==
    {"get_expense_by_id", "list_expenses", "summarize_expenses",
     "get_total_expenses", "get_categories"}

\* The answer of the read being answered is the one the table calls for as it
\* now is.
ReadReflectsTable ==
    LET a == last.args
        ret == last.ret
    IN  /\ last.op = "get_expense_by_id" =>
               IF a.expense_id \in DOMAIN expenses
               THEN /\ ~IsEnvelope(ret)
                    /\ ret.id = a.expense_id
                    /\ [f \in DOMAIN ret \ {"id"} |-> ret[f]] = expenses[a.expense_id]
               ELSE IsNotFound(ret, a.expense_id)
        /\ last.op = "get_categories" =>
               {ret.categories[k] : k \in 1..Len(ret.categories)} =
                   {expenses[i].category : i \in DOMAIN expenses}
        /\ last.op \in {"list_expenses", "summarize_expenses", "get_total_expenses"} =>
               IF validate_date(a.start_date) /\ validate_date(a.end_date)
               THEN LET rows == RowsBetween(expenses, a.start_date, a.end_date)
                    IN  /\ last.op = "list_expenses" =>
                               /\ {ret.list[k].id : k \in 1..Len(ret.list)} = rows
                               /\ \A k \in 1..Len(ret.list) :
                                      ret.list[k].amount = expenses[ret.list[k].id].amount
                        /\ last.op = "summarize_expenses" =>
                               {ret.list[k].category : k \in 1..Len(ret.list)}
                                   \subseteq {expenses[i].category : i \in rows}
                        /\ last.op = "get_total_expenses" =>
                               ret.count = Cardinality(rows)
               ELSE Failed(ret)

\* C18: a call of get_expense_by_id, list_expenses, summarize_expenses,
\* get_total_expenses or get_categories, answered with a result or an error,
\* leaves the table and the id counter as they were, and its answer is the
\* one for the table as it is at the call, whatever adds, edits and deletes
\* came before.
C18_ReadsArePure ==
    /\ []ReadReflectsTable
    /\ [][last'.op \in ReadOps => (expenses' = expenses /\ seq' = seq)]_vars

\* A read answered with an error on a table that has a row and has seen a
\* delete.
C18_Witness ==
    /\ last.op \in ReadOps
    /\ Failed(last.ret)
    /\ DOMAIN expenses # {}
    /\ deleted # {}

RECURSIVE SumTotals(_)
SumTotals(items) ==
    IF items = <<>> THEN 0 ELSE Head(items).total + SumTotals(Tail(items))

\* C20: for bounds that pass validation, the totals of the entries that
\* summarize_expenses returns without a category add up to the total that
\* get_total_expenses returns for the same bounds on the same table, and
\* every row in range has its category in exactly one entry.
C20_TotalsAddUp ==
    /\ SummarizeAll =>
           LET lo == last.args.start_date
               hi == last.args.end_date
               items == last.ret.list
           IN  /\ SumTotals(items) = TotalOrZero(SqlSum(expenses, InRange(expenses, lo, hi)))
               /\ \A i \in RowsBetween(expenses, lo, hi) :
                      Cardinality({k \in 1..Len(items) :
                                      items[k].category = expenses[i].category}) = 1
    /\ Total =>
           last.ret.total =
               SumTotals(Summary(expenses, last.args.start_date, last.args.end_date, None))

\* A summary of one entry that counts two rows, the whole table.
C20_Witness ==
    /\ SummarizeAll
    /\ Len(last.ret.list) = 1
    /\ Cardinality(RowsBetween(expenses, last.args.start_date, last.args.end_date)) = 2

----------------------------------------------------------------------------
\* validate_date on its own: the function applied to strings of every shape

\* "1900", "2000", "2023", "2024", "0000"
YearTexts ==
    { <<49, 57, 48, 48>>, <<50, 48, 48, 48>>, <<50, 48, 50, 51>>,
      <<50, 48, 50, 52>>, <<48, 48, 48, 48>> }

\* "01", "1", "02", "2", "12", "13", "00"
MonthTexts ==
    { <<48, 49>>, <<49>>, <<48, 50>>, <<50>>, <<49, 50>>, <<49, 51>>, <<48, 48>> }

\* "05", "5", " 5", "29", "30", "31", "00", "32"
DayTexts ==
    { <<48, 53>>, <<53>>, <<32, 53>>, <<50, 57>>, <<51, 48>>, <<51, 49>>,
      <<48, 48>>, <<51, 50>> }

\* year-month-day for each of the texts, and strings of other shapes: "",
\* "2024-01-15 ", "2024-01-15x", "2024/01/15", "20240115", "24-01-15",
\* "2024-01", " 2024-01-15"
DateStrings ==
    { y \o <<Dash>> \o m \o <<Dash>> \o d :
          y \in YearTexts, m \in MonthTexts, d \in DayTexts }
    \cup { <<>>,
           D_Jan15 \o <<Space>>,
           D_Jan15 \o <<120>>,
           <<50, 48, 50, 52, 47, 48, 49, 47, 49, 53>>,
           <<50, 48, 50, 52, 48, 49, 49, 53>>,
           <<50, 52, 45, 48, 49, 45, 49, 53>>,
           <<50, 48, 50, 52, 45, 48, 49>>,
           <<Space>> \o D_Jan15 }

ValidateDate ==
    /\ \E date_str \in DateStrings :
           Returned("validate_date", [date_str |-> date_str], validate_date(date_str))
    /\ UNCHANGED <<expenses, seq, issued, deleted>>

DateNext == ValidateDate

DateSpec == Init /\ [][DateNext]_vars

\* s is ten characters, YYYY-MM-DD with month and day of two digits, and
\* names a day of the calendar.
IsIsoDate(s) ==
    /\ Len(s) = 10
    /\ \A i \in {1, 2, 3, 4, 6, 7, 9, 10} : IsDigit(s[i])
    /\ s[5] = Dash
    /\ s[8] = Dash
    /\ YearOf(s) >= 1
    /\ LET m == 10 * DigitVal(s[6]) + DigitVal(s[7])
           d == 10 * DigitVal(s[9]) + DigitVal(s[10])
       IN  /\ m \in 1..12
           /\ d \in 1..DaysInMonth(YearOf(s), m)

\* C13 as claimed: validate_date(s) is true exactly when s is ten characters
\* in YYYY-MM-DD form with zero-padded month and day and names an existing
\* calendar date.
C13_AsClaimed ==
    last.op = "validate_date" =>
        (last.ret <=> IsIsoDate(last.args.date_str))

----------------------------------------------------------------------------
\* Concurrent callers: edit_expense and delete_expense step by step
\*
\* Every call opens a connection of its own.  The SELECT runs outside any
\* transaction and its read lock is gone once fetchone() has the row; the
\* UPDATE or DELETE opens a transaction that conn.commit() ends, and SQLite
\* lets one writer in at a time, so a write and its commit are one step to
\* every other caller.  Between a call's SELECT and its write any step of
\* another caller can take place.

Callers == {"a", "b"}

\* The rows the concurrent calls find: what add_expense stored for
\* ('2024-01-15', 1, 'Bus', note='cash') and ('2024-3-5', 2, 'Food', 'cafe', 'cash').
StoredFirst == NewRow(D_Jan15, 1, C_Bus, "", "cash")
StoredSecond == NewRow(D_Mar5, 2, C_Food, "cafe", "cash")

StoredTables ==
    { Insert(<<>>, 1, StoredFirst),
      Insert(Insert(<<>>, 1, StoredFirst), 2, StoredSecond) }

\* ids the concurrent calls name
ConcurrentIds == {1, 2}

\* edit_expense calls of concurrent callers, after the id: only the note, only
\* the amount, only the category, and an amount that fails validation
ConcurrentEdits ==
    { <<None, None, None, None, Some("")>>,
      <<None, Some(2), None, None, None>>,
      <<None, None, Some(C_Food), None, None>>,
      <<None, Some(0), None, None, None>> }

\* A caller with no call yet.  pc is the call's position: "select" before the
\* SELECT, "write" before the UPDATE or DELETE, "done" when it has returned;
\* expense is the row fetchone() gave; rowcount is the number of rows the
\* call's UPDATE or DELETE changed.
Idle ==
    [op |-> "", args |-> <<>>, pc |-> "idle", expense |-> None, rowcount |-> 0,
     ret |-> <<>>]

ConcurrentInit ==
    /\ expenses \in StoredTables
    /\ seq = Cardinality(DOMAIN expenses)
    /\ issued = [k \in 1..seq |-> k]
    /\ deleted = {}
    /\ last = NoCall
    /\ before = expenses
    /\ calls = [c \in Callers |-> Idle]

\* edit_expense up to the "with sqlite3.connect": the validation of date and
\* amount.
EditCalled(c) ==
    /\ calls[c].pc = "idle"
    /\ \E expense_id \in ConcurrentIds, e \in ConcurrentEdits :
           LET args == [expense_id |-> expense_id, date |-> e[1], amount |-> e[2],
                        category |-> e[3], subcategory |-> e[4], note |-> e[5]]
               call == [Idle EXCEPT !.op = "edit_expense", !.args = args]
           IN  calls' =
                   [calls EXCEPT ![c] =
                       IF args.date # None /\ ~validate_date(args.date[1])
                       THEN [call EXCEPT !.pc = "done", !.ret = InvalidDate]
                       ELSE IF args.amount # None /\ NonPositive(args.amount[1])
                       THEN [call EXCEPT !.pc = "done", !.ret = AmountNotPositive]
                       ELSE [call EXCEPT !.pc = "select"]]
    /\ UNCHANGED <<expenses, seq, last, before, issued, deleted>>

\* delete_expense up to the "with sqlite3.connect"
DeleteCalled(c) ==
    /\ calls[c].pc = "idle"
    /\ \E expense_id \in ConcurrentIds :
           calls' = [calls EXCEPT ![c] =
                        [Idle EXCEPT !.op = "delete_expense",
                                     !.args = [expense_id |-> expense_id],
                                     !.pc = "select"]]
    /\ UNCHANGED <<expenses, seq, last, before, issued, deleted>>

\* SELECT * FROM expenses WHERE id = ?; fetchone(); "if not expense: return"
RowSelected(c) ==
    /\ calls[c].pc = "select"
    /\ LET expense_id == calls[c].args.expense_id
       IN  calls' =
               [calls EXCEPT ![c] =
                   IF ~Exists(expenses, expense_id)
                   THEN [@ EXCEPT !.pc = "done", !.ret = NotFound(expense_id)]
                   ELSE [@ EXCEPT !.pc = "write", !.expense = Some(expenses[expense_id])]]
    /\ UNCHANGED <<expenses, seq, last, before, issued, deleted>>

\* The number of rows with the id: what UPDATE or DELETE ... WHERE id = ? changes.
RowCount(t, id) == IF id \in DOMAIN t THEN 1 ELSE 0

\* updated_* from the fetched row; UPDATE ... WHERE id = ?; commit; return success
RowUpdated(c) ==
    /\ calls[c].pc = "write"
    /\ calls[c].op = "edit_expense"
    /\ LET a == calls[c].args
           row == Patched(calls[c].expense[1], a.date, a.amount, a.category,
                          a.subcategory, a.note)
       IN  /\ expenses' = IF a.expense_id \in DOMAIN expenses
                          THEN Update(expenses, a.expense_id, row)
                          ELSE expenses
           /\ calls' = [calls EXCEPT ![c] =
                            [@ EXCEPT !.pc = "done",
                                      !.rowcount = RowCount(expenses, a.expense_id),
                                      !.ret = [status |-> "success",
                                               message |-> "Expense updated successfully."]]]
    /\ UNCHANGED <<seq, last, before, issued, deleted>>

\* DELETE FROM expenses WHERE id = ?; commit; return success
RowDeleted(c) ==
    /\ calls[c].pc = "write"
    /\ calls[c].op = "delete_expense"
    /\ LET expense_id == calls[c].args.expense_id
       IN  /\ expenses' = Delete(expenses, expense_id)
           /\ deleted' = deleted \cup {expense_id}
           /\ calls' = [calls EXCEPT ![c] =
                            [@ EXCEPT !.pc = "done",
                                      !.rowcount = RowCount(expenses, expense_id),
                                      !.ret = [status |-> "success",
                                               message |-> "Expense deleted successfully."]]]
    /\ UNCHANGED <<seq, last, before, issued>>

CallEdit == \E c \in Callers : EditCalled(c)

CallDelete == \E c \in Callers : DeleteCalled(c)

SelectRow == \E c \in Callers : RowSelected(c)

UpdateRow == \E c \in Callers : RowUpdated(c)

DeleteRow == \E c \in Callers : RowDeleted(c)

ConcurrentNext ==
    \/ CallEdit
    \/ CallDelete
    \/ SelectRow
    \/ UpdateRow
    \/ DeleteRow

ConcurrentSpec == ConcurrentInit /\ [][ConcurrentNext]_vars

\* The table after the whole of an edit_expense call that passes validation,
\* run alone on table t.
Edited(t, a) ==
    IF a.expense_id \in DOMAIN t
    THEN [t EXCEPT ![a.expense_id] =
             Patched(t[a.expense_id], a.date, a.amount, a.category, a.subcategory, a.note)]
    ELSE t

\* The fields an edit_expense call supplies.
Supplied(a) ==
    {f \in {"date", "amount", "category", "subcategory", "note"} : a[f] # None}

\* Both callers have returned from an edit_expense of the same row, one the
\* table had at the start, each having supplied fields the other did not.
BothEdited ==
    /\ \A c \in Callers :
           /\ calls[c].pc = "done"
           /\ calls[c].op = "edit_expense"
           /\ Succeeded(calls[c].ret)
           /\ calls[c].args.expense_id \in DOMAIN before
           /\ Supplied(calls[c].args) # {}
    /\ calls["a"].args.expense_id = calls["b"].args.expense_id
    /\ Supplied(calls["a"].args) \cap Supplied(calls["b"].args) = {}

\* C15 as claimed: two concurrent edit_expense calls on the same existing id
\* that supply different fields leave, however their steps interleave, the
\* table that the two calls run one after the other in some order leave, the
\* row holding the values of both.
C15_AsClaimed ==
    BothEdited =>
        /\ \/ expenses = Edited(Edited(before, calls["a"].args), calls["b"].args)
           \/ expenses = Edited(Edited(before, calls["b"].args), calls["a"].args)
        /\ \A c \in Callers :
               \A f \in Supplied(calls[c].args) :
                   expenses[calls[c].args.expense_id][f] = calls[c].args[f][1]

\* C19 as claimed: an edit_expense or delete_expense call of a concurrent
\* caller reports success only when its UPDATE or DELETE changed a row, and of
\* two concurrent delete_expense calls on the same id at most one reports
\* success.
C19_AsClaimed ==
    /\ \A c \in Callers :
           (calls[c].pc = "done" /\ Succeeded(calls[c].ret)) => calls[c].rowcount = 1
    /\ ~ /\ \A c \in Callers :
               /\ calls[c].pc = "done"
               /\ calls[c].op = "delete_expense"
               /\ Succeeded(calls[c].ret)
         /\ calls["a"].args.expense_id = calls["b"].args.expense_id
====
